---- MODULE Spec2Model ----
(***************************************************************************)
(* Rabbit: the lexer (PLY rules), the grammar and the transformer (Lark)   *)
(* of rabbit_parser.py and of its copy in rabbit-lang/cli.py, and the      *)
(* tree-walking evaluator of rabbit-lang/cli.py.                           *)
(*                                                                         *)
(* Text is a sequence of characters, each a one-character string; the two  *)
(* superscript glyphs U+00B2 and U+00B3 are written "SUP2" and "SUP3".     *)
(*                                                                         *)
(* The grammar names its terminals (NUMBER, ID, BUILTIN, PLUS, ASSIGN,     *)
(* ...) and defines none of them; they are taken to be the token types of  *)
(* RabbitLexer of the same names, so that the grammar consumes the lexer's *)
(* tokens.  The keyword "return" is the grammar's one anonymous terminal,  *)
(* written RETURN; the lexer has no such token type.  impl is "main" for   *)
(* rabbit_parser.py and "copy" for the copy in rabbit-lang/cli.py.         *)
(***************************************************************************)
EXTENDS Integers, Sequences, FiniteSets, TLC

VARIABLES impl, code, tokens, illegal, result, symbols, pc,
          env, stdin, out, last, steps

vars == <<impl, code, tokens, illegal, result, symbols, pc,
          env, stdin, out, last, steps>>

lexVars == <<impl, code, tokens, illegal, result, symbols, pc>>
evalVars == <<env, stdin, out, last, steps>>

(***************************************************************************)
(* Bounds of the model.                                                    *)
(***************************************************************************)
MaxPieces == 3
MaxToks == 5
MaxSteps == 2

(***************************************************************************)
(* Character classes of the lexers' regular expressions.                   *)
(***************************************************************************)
Lower == {"a","b","c","d","e","f","g","h","i","j","k","l","m",
          "n","o","p","q","r","s","t","u","v","w","x","y","z"}
Upper == {"A","B","C","D","E","F","G","H","I","J","K","L","M",
          "N","O","P","Q","R","S","T","U","V","W","X","Y","Z"}
Digit == {"0","1","2","3","4","5","6","7","8","9"}
IdStart == Lower \cup Upper \cup {"_"}
IdChar == IdStart \cup Digit
t_ignore == {" ", "\t", "\n"}

\* The registry, in the order of the source list (and of the alternation of
\* rabbit_parser.py's t_BUILTIN pattern, which lists the same names).
builtin_identifiers ==
    << <<"j","s","o","n",".","p","a","r","s","e">>,
       <<"j","s","o","n",".","s","t","r","i","n","g","i","f","y">>,
       <<"h","t","t","p",".","g","e","t">>,
       <<"h","t","t","p",".","p","o","s","t">>,
       <<"h","t","t","p",".","f","e","t","c","h">>,
       <<"l","e","n">>, <<"s","p","l","i","t">>, <<"j","o","i","n">>,
       <<"t","r","i","m">>,
       <<"s","q","r","t">>, <<"p","o","w">>, <<"a","b","s">>,
       <<"s","i","n">>, <<"c","o","s">>, <<"t","a","n">>,
       <<"r","a","n","d">>, <<"r","a","n","d","i","n","t">>,
       <<"m","a","x">>, <<"m","i","n">>, <<"s","u","m">>,
       <<"m","a","p">>, <<"f","i","l","t","e","r">>,
       <<"r","e","d","u","c","e">>, <<"s","o","r","t">>,
       <<"r","e","v","e","r","s","e">>,
       <<"p","i">>, <<"e">>, <<"i","n","f">> >>

IsBuiltinName(s) ==
    \E k \in 1..Len(builtin_identifiers) : builtin_identifiers[k] = s

(***************************************************************************)
(* Regular-expression matching.  Every Match operator returns the index    *)
(* just past the match that starts at i, and i itself when nothing matches.*)
(***************************************************************************)
RECURSIVE ScanWhile(_, _, _)
ScanWhile(text, i, S) ==
    IF i <= Len(text) /\ text[i] \in S THEN ScanWhile(text, i + 1, S) ELSE i

\* [a-zA-Z_][a-zA-Z0-9_]*
MatchId(text, i) ==
    IF i <= Len(text) /\ text[i] \in IdStart
    THEN ScanWhile(text, i + 1, IdChar) ELSE i

\* (?:\.[a-zA-Z_][a-zA-Z0-9_]*)*  continued from e
RECURSIVE DottedTail(_, _)
DottedTail(text, e) ==
    IF e <= Len(text) /\ text[e] = "." /\ MatchId(text, e + 1) > e + 1
    THEN DottedTail(text, MatchId(text, e + 1)) ELSE e

\* [a-zA-Z_][a-zA-Z0-9_]*(?:\.[a-zA-Z_][a-zA-Z0-9_]*)*
MatchDotted(text, i) ==
    IF MatchId(text, i) = i THEN i ELSE DottedTail(text, MatchId(text, i))

\* (_?\d+)*  continued from e
RECURSIVE GroupTail(_, _)
GroupTail(text, e) ==
    IF e <= Len(text) /\ text[e] = "_" /\ ScanWhile(text, e + 1, Digit) > e + 1
    THEN GroupTail(text, ScanWhile(text, e + 1, Digit)) ELSE e

\* \d+(_?\d+)*
MatchDigits(text, i) ==
    IF ScanWhile(text, i, Digit) = i THEN i
    ELSE GroupTail(text, ScanWhile(text, i, Digit))

\* \d+(_?\d+)*(\.\d+(_?\d+)*)?
MatchNumber(text, i) ==
    LET e == MatchDigits(text, i) IN
    IF e = i THEN i
    ELSE IF e <= Len(text) /\ text[e] = "." /\ MatchDigits(text, e + 1) > e + 1
         THEN MatchDigits(text, e + 1) ELSE e

StartsWith(text, i, w) ==
    /\ i + Len(w) - 1 <= Len(text)
    /\ SubSeq(text, i, i + Len(w) - 1) = w

\* (json\.parse|...|inf)(?![a-zA-Z0-9_\.]) : the first alternative, in
\* order, that matches at i and is not followed by an identifier character
\* or a dot.
MainBuiltinAlt(text, i, k) ==
    /\ StartsWith(text, i, builtin_identifiers[k])
    /\ LET e == i + Len(builtin_identifiers[k]) IN
       ~(e <= Len(text) /\ text[e] \in IdChar \cup {"."})

MatchMainBuiltin(text, i) ==
    LET hits == {k \in 1..Len(builtin_identifiers) : MainBuiltinAlt(text, i, k)}
    IN IF hits = {} THEN i
       ELSE LET k == CHOOSE m \in hits : \A n \in hits : m <= n
            IN i + Len(builtin_identifiers[k])

(***************************************************************************)
(* Token values.                                                           *)
(***************************************************************************)
DigitVal(c) ==
    CASE c = "0" -> 0 [] c = "1" -> 1 [] c = "2" -> 2 [] c = "3" -> 3
      [] c = "4" -> 4 [] c = "5" -> 5 [] c = "6" -> 6 [] c = "7" -> 7
      [] c = "8" -> 8 [] c = "9" -> 9

RECURSIVE DigitsToNat(_)
DigitsToNat(ds) ==
    IF ds = <<>> THEN 0
    ELSE 10 * DigitsToNat(SubSeq(ds, 1, Len(ds) - 1)) + DigitVal(ds[Len(ds)])

RECURSIVE StripZeros(_)
StripZeros(ds) ==
    IF ds # <<>> /\ ds[Len(ds)] = "0"
    THEN StripZeros(SubSeq(ds, 1, Len(ds) - 1)) ELSE ds

\* t.value.replace('_', '')
RemoveUnderscores(s) == SelectSeq(s, LAMBDA c : c # "_")

PointAt(s) ==
    IF \E k \in 1..Len(s) : s[k] = "."
    THEN CHOOSE k \in 1..Len(s) : s[k] = "." ELSE Len(s) + 1

\* float(...): the value of a decimal literal, as its whole part and its
\* fraction digits without trailing zeros (1.50 and 1.5 are one value).
FloatOf(s) ==
    [whole |-> DigitsToNat(SubSeq(s, 1, PointAt(s) - 1)),
     frac  |-> StripZeros(SubSeq(s, PointAt(s) + 1, Len(s)))]

Tok(type, value, text, pos) ==
    [tag |-> "Token", type |-> type, value |-> value, text |-> text, pos |-> pos]

NoToken == [tag |-> "none"]

SingleCharType(c) ==
    CASE c = "+" -> "PLUS" [] c = "-" -> "MINUS" [] c = "*" -> "TIMES"
      [] c = "/" -> "DIVIDE"
      [] c \in {"^", "SUP2", "SUP3"} -> "POWER"
      [] c = "(" -> "LPAREN" [] c = ")" -> "RPAREN"
      [] c = "[" -> "LBRACK" [] c = "]" -> "RBRACK"
      [] c = "=" -> "ASSIGN" [] c = "," -> "COMMA" [] c = ":" -> "COLON"
      [] c = ";" -> "SEMICOLON"
      [] OTHER -> "none"

(***************************************************************************)
(* One call of lexer.token() at position i: the token matched there, or    *)
(* no token when the character is ignored or illegal (t_error skips it).   *)
(* stepKind is "tok", "ignore" or "error"; next is the new position.       *)
(***************************************************************************)
IdToken(s, i) == Tok(IF IsBuiltinName(s) THEN "BUILTIN" ELSE "ID", [str |-> s], s, i)

NumberToken(s, i) == Tok("NUMBER", [num |-> FloatOf(RemoveUnderscores(s))], s, i)

CharToken(c, i) == Tok(SingleCharType(c), [str |-> <<c>>], <<c>>, i)

Emit(tok, next) == [stepKind |-> "tok", next |-> next, tok |-> tok]
Skip(kind, next) == [stepKind |-> kind, next |-> next, tok |-> NoToken]

\* rabbit_parser.py: t_BUILTIN, t_ID, t_NUMBER, then the string rules.
MainTokenAt(text, i) ==
    LET b == MatchMainBuiltin(text, i)
        d == MatchId(text, i)
        n == MatchNumber(text, i)
    IN IF text[i] \in t_ignore THEN Skip("ignore", i + 1)
       ELSE IF b > i
       THEN Emit(Tok("BUILTIN", [str |-> SubSeq(text, i, b - 1)],
                     SubSeq(text, i, b - 1), i), b)
       ELSE IF d > i THEN Emit(IdToken(SubSeq(text, i, d - 1), i), d)
       ELSE IF n > i THEN Emit(NumberToken(SubSeq(text, i, n - 1), i), n)
       ELSE IF SingleCharType(text[i]) # "none"
       THEN Emit(CharToken(text[i], i), i + 1)
       ELSE Skip("error", i + 1)

\* rabbit-lang/cli.py: t_SEMICOLON, t_BUILTIN (the whole dotted run, then
\* the registry lookup), t_NUMBER, t_ID, then the string rules.
CopyTokenAt(text, i) ==
    LET d == MatchDotted(text, i)
        n == MatchNumber(text, i)
    IN IF text[i] \in t_ignore THEN Skip("ignore", i + 1)
       ELSE IF text[i] = ";" THEN Emit(CharToken(text[i], i), i + 1)
       ELSE IF d > i THEN Emit(IdToken(SubSeq(text, i, d - 1), i), d)
       ELSE IF n > i THEN Emit(NumberToken(SubSeq(text, i, n - 1), i), n)
       ELSE IF SingleCharType(text[i]) # "none"
       THEN Emit(CharToken(text[i], i), i + 1)
       ELSE Skip("error", i + 1)

TokenAt(which, text, i) ==
    IF which = "main" THEN MainTokenAt(text, i) ELSE CopyTokenAt(text, i)

\* list(iter(lexer.token, None)): every token of the text, and the number
\* of illegal characters reported and skipped on the way.
RECURSIVE LexFrom(_, _, _, _)
LexFrom(which, text, i, acc) ==
    IF i > Len(text) THEN acc
    ELSE LET s == TokenAt(which, text, i) IN
         LexFrom(which, text, s.next,
                 CASE s.stepKind = "tok" ->
                        [acc EXCEPT !.toks = Append(@, s.tok)]
                   [] s.stepKind = "error" ->
                        [acc EXCEPT !.illegal = @ + 1]
                   [] OTHER -> acc)

Lex(which, text) == LexFrom(which, text, 1, [toks |-> <<>>, illegal |-> 0])

(***************************************************************************)
(* Grammar and transformer.  Lark keeps a terminal that a rule names       *)
(* (PLUS, ASSIGN, LPAREN, ...) as a child of the rule's node and drops     *)
(* only an anonymous literal ("return"); the transformer's callbacks run   *)
(* as each rule is reduced, and a rule without a callback stays a Tree.    *)
(***************************************************************************)
Tree(data, children) == [tag |-> "Tree", data |-> data, children |-> children]

NoNode == [tag |-> "none"]

EmptyDict == <<>>

DictSet(d, k, v) == [n \in DOMAIN d \cup {k} |-> IF n = k THEN v ELSE d[n]]

\* RabbitTransformer: items[0], items[1] of the source are items[1], items[2].
add(items) == [tag |-> "add", a |-> items[1], b |-> items[2]]
sub(items) == [tag |-> "sub", a |-> items[1], b |-> items[2]]
mul(items) == [tag |-> "mul", a |-> items[1], b |-> items[2]]
div(items) == [tag |-> "div", a |-> items[1], b |-> items[2]]
pow(items) == [tag |-> "pow", a |-> items[1], b |-> items[2]]
number(items) == [tag |-> "number", value |-> items[1].value]
builtin(items) == [tag |-> "builtin", value |-> items[1].value]
var(items) == [tag |-> "var", value |-> items[1].value]
builtin_call(items) ==
    [tag |-> "builtin_call", name |-> items[1].value,
     args |-> IF Len(items) > 1 THEN items[2] ELSE <<>>]
func_call(items) ==
    [tag |-> "func_call", name |-> items[1].value,
     args |-> IF Len(items) > 1 THEN items[2] ELSE <<>>]
return_expr(items) == [tag |-> "return", value |-> items[1]]

\* var_name, expr = items  raises ValueError unless items has two elements.
assign_var(items, syms) ==
    IF Len(items) # 2
    THEN [raised |-> TRUE, node |-> NoNode, syms |-> syms]
    ELSE [raised |-> FALSE,
          node |-> [tag |-> "assign", name |-> items[1].value, value |-> items[2]],
          syms |-> DictSet(syms, items[1].value, items[2])]

assign_builtin(items, syms) ==
    IF Len(items) # 2
    THEN [raised |-> TRUE, node |-> NoNode, syms |-> syms]
    ELSE [raised |-> FALSE,
          node |-> [tag |-> "assign_builtin", name |-> items[1].value,
                    value |-> items[2]],
          syms |-> syms]

BinaryCallback(type, items) ==
    CASE type = "PLUS" -> add(items)
      [] type = "MINUS" -> sub(items)
      [] type = "TIMES" -> mul(items)
      [] type = "DIVIDE" -> div(items)
      [] type = "POWER" -> pow(items)

\* The children a rule's callback receives: the terminals the rule names
\* are kept beside the sub-trees.
BinaryItems(left, optok, right) == <<left, optok, right>>
AssignItems(target, assigntok, value) == <<target, assigntok, value>>
ParenItems(lp, inner, rp) == <<lp, inner, rp>>
CallItems(callee, lp, args, rp) ==
    IF args = NoNode THEN <<callee, lp, rp>> ELSE <<callee, lp, args, rp>>

Peek(toks, pos) == IF pos <= Len(toks) THEN toks[pos].type ELSE "$END"

ExprOk(pos, node) == [ok |-> TRUE, pos |-> pos, node |-> node]
ExprFail == [ok |-> FALSE, pos |-> 0, node |-> NoNode]

RECURSIVE ParseExpr(_, _)
RECURSIVE ParseExprRest(_, _, _)
RECURSIVE ParseTerm(_, _)
RECURSIVE ParseTermRest(_, _, _)
RECURSIVE ParseFactor(_, _)
RECURSIVE ParseArgsRest(_, _, _)

\* args: expr (COMMA expr)*
ArgsNext(toks, pos, children, e) ==
    IF e.ok
    THEN ParseArgsRest(toks, e.pos, children \o <<toks[pos], e.node>>)
    ELSE ExprFail

ParseArgsRest(toks, pos, children) ==
    IF Peek(toks, pos) = "COMMA"
    THEN ArgsNext(toks, pos, children, ParseExpr(toks, pos + 1))
    ELSE ExprOk(pos, Tree("args", children))

ArgsFirst(toks, e) ==
    IF e.ok THEN ParseArgsRest(toks, e.pos, <<e.node>>) ELSE ExprFail

ParseArgs(toks, pos) == ArgsFirst(toks, ParseExpr(toks, pos))

\* call_expr: BUILTIN LPAREN args? RPAREN -> builtin_call
\*          | ID LPAREN args? RPAREN -> func_call
\* entered at the callee, with LPAREN the next token.
CallCallback(type, items) ==
    IF type = "BUILTIN" THEN builtin_call(items) ELSE func_call(items)

CallClose(toks, pos, a) ==
    IF a.ok /\ Peek(toks, a.pos) = "RPAREN"
    THEN ExprOk(a.pos + 1,
                CallCallback(toks[pos].type,
                    CallItems(toks[pos], toks[pos + 1], a.node, toks[a.pos])))
    ELSE ExprFail

ParseCall(toks, pos) ==
    IF Peek(toks, pos + 2) = "RPAREN"
    THEN ExprOk(pos + 3,
                CallCallback(toks[pos].type,
                    CallItems(toks[pos], toks[pos + 1], NoNode, toks[pos + 2])))
    ELSE CallClose(toks, pos, ParseArgs(toks, pos + 2))

\* ?factor: NUMBER -> number | BUILTIN -> builtin | ID -> var
\*        | call_expr | LPAREN expr RPAREN
\* An ID or BUILTIN followed by LPAREN is shifted into a call.
ParenClose(toks, pos, e) ==
    IF e.ok /\ Peek(toks, e.pos) = "RPAREN"
    THEN ExprOk(e.pos + 1,
                Tree("factor", ParenItems(toks[pos], e.node, toks[e.pos])))
    ELSE ExprFail

ParseFactor(toks, pos) ==
    CASE Peek(toks, pos) = "NUMBER" -> ExprOk(pos + 1, number(<<toks[pos]>>))
      [] Peek(toks, pos) \in {"BUILTIN", "ID"} ->
           IF Peek(toks, pos + 1) = "LPAREN" THEN ParseCall(toks, pos)
           ELSE IF toks[pos].type = "BUILTIN"
                THEN ExprOk(pos + 1, builtin(<<toks[pos]>>))
                ELSE ExprOk(pos + 1, var(<<toks[pos]>>))
      [] Peek(toks, pos) = "LPAREN" ->
           ParenClose(toks, pos, ParseExpr(toks, pos + 1))
      [] OTHER -> ExprFail

\* ?term: term TIMES factor -> mul | term DIVIDE factor -> div
\*      | term POWER factor -> pow | factor
TermNext(toks, pos, left, f) ==
    IF f.ok
    THEN ParseTermRest(toks, f.pos,
             BinaryCallback(toks[pos].type, BinaryItems(left, toks[pos], f.node)))
    ELSE ExprFail

ParseTermRest(toks, pos, left) ==
    IF Peek(toks, pos) \in {"TIMES", "DIVIDE", "POWER"}
    THEN TermNext(toks, pos, left, ParseFactor(toks, pos + 1))
    ELSE ExprOk(pos, left)

TermFirst(toks, f) ==
    IF f.ok THEN ParseTermRest(toks, f.pos, f.node) ELSE ExprFail

ParseTerm(toks, pos) == TermFirst(toks, ParseFactor(toks, pos))

\* ?expr: expr PLUS term -> add | expr MINUS term -> sub | term
ExprNext(toks, pos, left, t) ==
    IF t.ok
    THEN ParseExprRest(toks, t.pos,
             BinaryCallback(toks[pos].type, BinaryItems(left, toks[pos], t.node)))
    ELSE ExprFail

ParseExprRest(toks, pos, left) ==
    IF Peek(toks, pos) \in {"PLUS", "MINUS"}
    THEN ExprNext(toks, pos, left, ParseTerm(toks, pos + 1))
    ELSE ExprOk(pos, left)

ExprFirst(toks, t) ==
    IF t.ok THEN ParseExprRest(toks, t.pos, t.node) ELSE ExprFail

ParseExpr(toks, pos) == ExprFirst(toks, ParseTerm(toks, pos))

StmtStart == {"NUMBER", "BUILTIN", "ID", "LPAREN", "RETURN"}

\* What may follow a statement: the program rule of rabbit_parser.py is
\* (statement SEMICOLON?)*, that of the copy in cli.py is statement*.
FollowStmt(which) ==
    StmtStart \cup {"$END"} \cup (IF which = "main" THEN {"SEMICOLON"} ELSE {})

StmtOk(pos, node, syms) ==
    [ok |-> TRUE, error |-> "none", pos |-> pos, node |-> node, syms |-> syms]
StmtFail(error, syms) ==
    [ok |-> FALSE, error |-> error, pos |-> 0, node |-> NoNode, syms |-> syms]

IsAssignAt(toks, pos) ==
    Peek(toks, pos) \in {"ID", "BUILTIN"} /\ Peek(toks, pos + 1) = "ASSIGN"

IsReturnAt(toks, pos) == Peek(toks, pos) = "RETURN"

\* The assignment callback for the target's token type.
AssignCallback(type, items, syms) ==
    IF type = "ID" THEN assign_var(items, syms) ELSE assign_builtin(items, syms)

AssignResult(pos, r) ==
    IF r.raised THEN StmtFail("ValueError", r.syms)
    ELSE StmtOk(pos, Tree("statement", <<r.node>>), r.syms)

ReduceAssign(type, items, pos, syms, transformer) ==
    IF ~transformer
    THEN StmtOk(pos, Tree("statement", <<Tree("assignment", items)>>), syms)
    ELSE AssignResult(pos, AssignCallback(type, items, syms))

\* The statement is reduced, and its callback runs, once the token after it
\* is one that may follow a statement.  transformer is FALSE for a parser
\* built without RabbitTransformer: the assignment then stays a Tree.
ReduceStatement(which, toks, pos, syms, transformer, e) ==
    IF ~e.ok \/ Peek(toks, e.pos) \notin FollowStmt(which)
    THEN StmtFail("UnexpectedInput", syms)
    ELSE IF IsAssignAt(toks, pos)
    THEN ReduceAssign(toks[pos].type,
                      AssignItems(toks[pos], toks[pos + 1], e.node),
                      e.pos, syms, transformer)
    ELSE IF IsReturnAt(toks, pos)
    THEN StmtOk(e.pos, Tree("statement", <<return_expr(<<e.node>>)>>), syms)
    ELSE StmtOk(e.pos, Tree("statement", <<Tree("expr_statement", <<e.node>>)>>),
                syms)

\* statement: assignment | expr_statement | return_statement
\* assignment: ID ASSIGN expr -> assign_var | BUILTIN ASSIGN expr -> assign_builtin
\* expr_statement: expr
\* return_statement: "return" expr -> return_expr
ParseStatement(which, toks, pos, syms, transformer) ==
    ReduceStatement(which, toks, pos, syms, transformer,
        ParseExpr(toks, IF IsAssignAt(toks, pos) THEN pos + 2
                        ELSE IF IsReturnAt(toks, pos) THEN pos + 1 ELSE pos))

\* program: (statement SEMICOLON?)*      (rabbit_parser.py)
\* program: statement*                   (cli.py)
RECURSIVE ParseProgram(_, _, _, _, _, _)
ProgramNext(which, toks, children, transformer, s) ==
    IF ~s.ok THEN s
    ELSE IF which = "main" /\ Peek(toks, s.pos) = "SEMICOLON"
    THEN ParseProgram(which, toks, s.pos + 1,
                      children \o <<s.node, toks[s.pos]>>, s.syms, transformer)
    ELSE ParseProgram(which, toks, s.pos, children \o <<s.node>>, s.syms,
                      transformer)

ParseProgram(which, toks, pos, children, syms, transformer) ==
    IF Peek(toks, pos) = "$END"
    THEN StmtOk(pos, Tree("program", children), syms)
    ELSE ProgramNext(which, toks, children, transformer,
                     ParseStatement(which, toks, pos, syms, transformer))

ParseResult(r) ==
    [ok |-> r.ok, error |-> r.error,
     tree |-> IF r.ok THEN r.node ELSE NoNode, symbols |-> r.syms]

\* parse(code): a new RabbitTransformer (self.symbols = {}), then the parse;
\* the caller gets the tree or the exception, never both.
parse(which, toks) ==
    ParseResult(ParseProgram(which, toks, 1, <<>>, EmptyDict, TRUE))

(***************************************************************************)
(* Inputs.                                                                 *)
(***************************************************************************)
Pieces ==
    { <<"j","s","o","n">>, <<".">>, <<"p","a","r","s","e">>, <<"f","o","o">>,
      <<"e">>, <<"r">>, <<"2">>, <<"1","_","0">>, <<"^">>, <<"SUP2">>,
      <<" ">>, <<"=">>, <<";">>, <<"'">> }

RECURSIVE Concat(_)
Concat(ss) == IF ss = <<>> THEN <<>> ELSE Head(ss) \o Concat(Tail(ss))

\* Every text made of at most m pieces.
Texts(m) == { Concat(ps) : ps \in UNION { [1..n -> Pieces] : n \in 0..m } }

Lexemes ==
    { <<"NUMBER", [num |-> [whole |-> 1, frac |-> <<>>]], <<"1">> >>,
      <<"ID", [str |-> <<"a">>], <<"a">> >>,
      <<"BUILTIN", [str |-> <<"p","i">>], <<"p","i">> >>,
      <<"PLUS", [str |-> <<"+">>], <<"+">> >>,
      <<"MINUS", [str |-> <<"-">>], <<"-">> >>,
      <<"TIMES", [str |-> <<"*">>], <<"*">> >>,
      <<"DIVIDE", [str |-> <<"/">>], <<"/">> >>,
      <<"POWER", [str |-> <<"^">>], <<"^">> >>,
      <<"LPAREN", [str |-> <<"(">>], <<"(">> >>,
      <<"RPAREN", [str |-> <<")">>], <<")">> >>,
      <<"ASSIGN", [str |-> <<"=">>], <<"=">> >>,
      <<"SEMICOLON", [str |-> <<";">>], <<";">> >>,
      <<"RETURN", [str |-> <<"r","e","t","u","r","n">>],
        <<"r","e","t","u","r","n">> >> }

\* Every sequence of at most m lexemes (given as such, they carry no
\* position in a text).
TokenSeqs(m) ==
    { [i \in DOMAIN ls |-> Tok(ls[i][1], ls[i][2], ls[i][3], 0)] :
        ls \in UNION { [1..n -> Lexemes] : n \in 0..m } }

(***************************************************************************)
(* The front end as a state machine.                                       *)
(***************************************************************************)
NoResult == [ok |-> FALSE, error |-> "none", tree |-> NoNode]

EvalIdle ==
    /\ env = <<>> /\ stdin = <<>> /\ out = <<>>
    /\ last = [kind |-> "none"] /\ steps = 0

\* lexer.input(code); the tokens are read off it.
Tokenize ==
    /\ pc = "start"
    /\ LET r == Lex(impl, code) IN
        /\ tokens' = r.toks
        /\ illegal' = r.illegal
    /\ pc' = "lexed"
    /\ UNCHANGED <<impl, code, result, symbols>>
    /\ UNCHANGED evalVars

\* parser.parse(...)
Parse ==
    /\ pc = "lexed"
    /\ LET r == parse(impl, tokens) IN
        /\ result' = [ok |-> r.ok, error |-> r.error, tree |-> r.tree]
        /\ symbols' = r.symbols
    /\ pc' = "parsed"
    /\ UNCHANGED <<impl, code, tokens, illegal>>
    /\ UNCHANGED evalVars

InitText ==
    /\ impl \in {"main", "copy"}
    /\ code \in Texts(MaxPieces)
    /\ tokens = <<>> /\ illegal = 0
    /\ result = NoResult /\ symbols = EmptyDict
    /\ pc = "start"
    /\ EvalIdle

NextText == Tokenize \/ Parse

SpecText == InitText /\ [][NextText]_vars

InitTokens ==
    /\ impl \in {"main", "copy"}
    /\ code = <<>>
    /\ tokens \in TokenSeqs(MaxToks) /\ illegal = 0
    /\ result = NoResult /\ symbols = EmptyDict
    /\ pc = "lexed"
    /\ EvalIdle

NextTokens == Parse

SpecTokens == InitTokens /\ [][NextTokens]_vars

(***************************************************************************)
(* The evaluator of rabbit-lang/cli.py.  A runtime value is a float        *)
(* [num |-> k], k counting halves so that sums are exact (Number(1) is     *)
(* k = 2, Number(1.5) is k = 3), a string [str |-> characters] or None.    *)
(* st = [env, stdin, out] is what evaluation reads and changes: the global *)
(* env, the lines still to be read, and what the statement wrote.          *)
(***************************************************************************)
None == [none |-> TRUE]
Num(k) == [num |-> k]
Str(cs) == [str |-> cs]

IsNum(v) == "num" \in DOMAIN v
IsStr(v) == "str" \in DOMAIN v

\* AST nodes
String(s) == [tag |-> "String", s |-> s]
Number(k) == [tag |-> "Number", n |-> k]
Call(name, args) == [tag |-> "Call", name |-> name, args |-> args]
Var(name) == [tag |-> "Var", name |-> name]
Assign(name, val) == [tag |-> "Assign", name |-> name, val |-> val]
Add(left, right) == [tag |-> "Add", left |-> left, right |-> right]

DigitChar(d) ==
    CASE d = 0 -> "0" [] d = 1 -> "1" [] d = 2 -> "2" [] d = 3 -> "3"
      [] d = 4 -> "4" [] d = 5 -> "5" [] d = 6 -> "6" [] d = 7 -> "7"
      [] d = 8 -> "8" [] d = 9 -> "9"

RECURSIVE NatToDigits(_)
NatToDigits(n) ==
    IF n < 10 THEN <<DigitChar(n)>>
    ELSE NatToDigits(n \div 10) \o <<DigitChar(n % 10)>>

\* str(v): a float always shows a fraction ("1.0", "1.5").
PyStr(v) ==
    IF IsNum(v)
    THEN NatToDigits(v.num \div 2) \o <<".">> \o
         (IF v.num % 2 = 0 THEN <<"0">> ELSE <<"5">>)
    ELSE IF IsStr(v) THEN v.str
    ELSE <<"N","o","n","e">>

RECURSIVE JoinSpace(_)
JoinSpace(vs) ==
    IF vs = <<>> THEN <<>>
    ELSE IF Len(vs) = 1 THEN PyStr(vs[1])
    ELSE PyStr(vs[1]) \o <<" ">> \o JoinSpace(Tail(vs))

Returned(st, val) == [kind |-> "ok", val |-> val, st |-> st]
Raised(st, kind) == [kind |-> kind, val |-> None, st |-> st]

\* print(*args)
PyPrint(st, args) ==
    Returned([st EXCEPT !.out = Append(@, JoinSpace(args) \o <<"\n">>)], None)

\* input(*args): at most one argument, the prompt, is written; one line is
\* read, and the end of the input raises EOFError.
PyInput(st, args) ==
    IF Len(args) > 1 THEN Raised(st, "TypeError")
    ELSE LET st1 == IF args = <<>> THEN st
                    ELSE [st EXCEPT !.out = Append(@, PyStr(args[1]))]
         IN IF st1.stdin = <<>> THEN Raised(st1, "EOFError")
            ELSE Returned([st1 EXCEPT !.stdin = Tail(@)], Str(Head(st1.stdin)))

EvalVar(node, st) ==
    IF node.name \in DOMAIN st.env THEN Returned(st, st.env[node.name])
    ELSE Raised(st, "KeyError")

\* A dispatch that yields None for an unknown name instead of raising.
EvalCall_Fallback(node, st, args) ==
    IF node.name = "print" THEN PyPrint(st, args)
    ELSE IF node.name = "input" THEN PyInput(st, args)
    ELSE Returned(st, None)

\* if node.name == "print": ... elif node.name == "input": ... else: raise
EvalCall(node, st, args) ==
    IF node.name = "print" THEN PyPrint(st, args)
    ELSE IF node.name = "input" THEN PyInput(st, args)
    ELSE Raised(st, "NameError")

\* An assignment that rebinds env to a new dict holding only the target.
EvalAssign_Clobber(node, st, v) ==
    Returned([st EXCEPT !.env = DictSet(EmptyDict, node.name, v)], None)

\* env[node.name] = eval_expr(node.val)
EvalAssign(node, st, v) ==
    Returned([st EXCEPT !.env = DictSet(@, node.name, v)], None)

EvalAdd(st, l, r) ==
    IF IsNum(l) /\ IsNum(r) THEN Returned(st, Num(l.num + r.num))
    ELSE Returned(st, Str(PyStr(l) \o PyStr(r)))

RECURSIVE eval_expr(_, _)
RECURSIVE EvalArgs(_, _, _)

\* [eval_expr(a) for a in node.args]: left to right, stopping at the first
\* exception; val is the list of values.
EvalArgs(args, st, acc) ==
    IF args = <<>> THEN [kind |-> "ok", val |-> acc, st |-> st]
    ELSE LET r == eval_expr(Head(args), st) IN
         IF r.kind # "ok" THEN [kind |-> r.kind, val |-> <<>>, st |-> r.st]
         ELSE EvalArgs(Tail(args), r.st, Append(acc, r.val))

eval_expr(node, st) ==
    CASE node.tag = "String" -> Returned(st, Str(node.s))
      [] node.tag = "Number" -> Returned(st, Num(node.n))
      [] node.tag = "Var" -> EvalVar(node, st)
      [] node.tag = "Call" ->
           LET a == EvalArgs(node.args, st, <<>>) IN
           IF a.kind # "ok" THEN Raised(a.st, a.kind)
           ELSE EvalCall(node, a.st, a.val)
      [] node.tag = "Assign" ->
           LET v == eval_expr(node.val, st) IN
           IF v.kind # "ok" THEN v ELSE EvalAssign(node, v.st, v.val)
      [] node.tag = "Add" ->
           LET l == eval_expr(node.left, st) IN
           IF l.kind # "ok" THEN l
           ELSE LET r == eval_expr(node.right, l.st) IN
                IF r.kind # "ok" THEN r ELSE EvalAdd(r.st, l.val, r.val)
      [] OTHER -> Returned(st, None)

(***************************************************************************)
(* The programs run: statements as the grammar of cli.py builds them       *)
(* (stmt: call | assign), over a small set of names and literals.  An      *)
(* expression a rule leaves wrapped in a Tree('term', ...) is no AST class *)
(* and evaluates to None.                                                  *)
(***************************************************************************)
Names == {"x", "y"}
Callees == {"print", "input", "nope"}

Atoms ==
    {String(<<"a">>), Number(2)} \cup {Var(n) : n \in Names}

CallsOver(S) ==
    {Call(c, args) : c \in Callees, args \in {<<>>} \cup {<<e>> : e \in S}}

Exprs ==
    Atoms \cup {Add(l, r) : l \in Atoms, r \in Atoms} \cup CallsOver(Atoms)
      \cup {Tree("term", <<Number(2)>>)}

Stmts ==
    {Assign(n, e) : n \in Names, e \in Exprs} \cup CallsOver(Exprs)
      \cup {Call(c, <<String(<<"a">>), Number(2)>>) : c \in Callees}

Lines == {<<"7">>}

FrontIdle ==
    /\ impl = "main" /\ code = <<>> /\ tokens = <<>> /\ illegal = 0
    /\ result = NoResult /\ symbols = EmptyDict /\ pc = "start"

State == [env |-> env, stdin |-> stdin, out |-> <<>>]

\* for stmt in stmts.children: eval_expr(stmt) -- an exception ends the run.
Exec(stmt) ==
    /\ steps < MaxSteps
    /\ last.kind \in {"none", "ok"}
    /\ LET r == eval_expr(stmt, State) IN
        /\ env' = r.st.env
        /\ stdin' = r.st.stdin
        /\ out' = r.st.out
        /\ last' = [kind |-> r.kind, val |-> r.val, stmt |-> stmt]
    /\ steps' = steps + 1
    /\ UNCHANGED lexVars

InitEval ==
    /\ FrontIdle
    /\ env = EmptyDict
    /\ stdin \in {<<>>} \cup {<<l>> : l \in Lines}
    /\ out = <<>>
    /\ last = [kind |-> "none"]
    /\ steps = 0

NextEval == \E stmt \in Stmts : Exec(stmt)

SpecEval == InitEval /\ [][NextEval]_vars

(***************************************************************************)
(* Properties.                                                             *)
(***************************************************************************)
\* A sequence of lexemes is in the grammar's language when the parser built
\* without a transformer accepts it.
InLanguage(which, toks) == ParseProgram(which, toks, 1, <<>>, EmptyDict, FALSE).ok

PlainTree(which, toks) == ParseProgram(which, toks, 1, <<>>, EmptyDict, FALSE).node

\* The statements of a program node, without the SEMICOLON tokens between.
StatementsOf(tree) == SelectSeq(tree.children, LAMBDA c : c.tag = "Tree")

ExpFactor(t) ==
    [tag |-> CASE t.type = "NUMBER" -> "number"
               [] t.type = "ID" -> "var"
               [] OTHER -> "builtin",
     value |-> t.value]

OpTag(type) ==
    CASE type = "PLUS" -> "add" [] type = "MINUS" -> "sub"
      [] type = "TIMES" -> "mul" [] type = "DIVIDE" -> "div"
      [] OTHER -> "pow"

ExpBin(type, l, r) == [tag |-> OpTag(type), a |-> l, b |-> r]

FactorTypes == {"NUMBER", "ID", "BUILTIN"}
AddTier == {"PLUS", "MINUS"}
MulTier == {"TIMES", "DIVIDE", "POWER"}

\* The program is one expression statement, whose expression is e.
IsExprProgram(r, e) ==
    /\ r.ok
    /\ Len(r.tree.children) = 1
    /\ r.tree.children[1].children[1].tag = "Tree"
    /\ r.tree.children[1].children[1].data = "expr_statement"
    /\ r.tree.children[1].children[1].children = <<e>>

ThreeOperands(toks) ==
    /\ Len(toks) = 5
    /\ \A i \in {1, 3, 5} : toks[i].type \in FactorTypes

\* A maximal identifier-shaped run starts at i: an identifier starts there
\* and the character before it, if any, belongs to no identifier run.
RunStartsAt(text, i) ==
    /\ text[i] \in IdStart
    /\ i = 1 \/ text[i - 1] \notin IdChar \cup {"."}

OneLexemePerRun(which, text, toks) ==
    \A i \in 1..Len(text) :
      RunStartsAt(text, i) =>
        LET e == MatchDotted(text, i)
            run == SubSeq(text, i, e - 1)
        IN /\ \E k \in 1..Len(toks) :
                /\ toks[k].pos = i
                /\ toks[k].text = run
                /\ toks[k].type = IF IsBuiltinName(run) THEN "BUILTIN" ELSE "ID"
           /\ \A k \in 1..Len(toks) : toks[k].pos \in i..(e - 1) => toks[k].pos = i

\* C1: every maximal identifier-shaped run of the text is emitted as exactly
\* one lexeme holding the whole run, of kind BUILTIN iff the run is a
\* registry entry and ID otherwise (json.foo is one ID, never split).
C1_OneLexemePerRun ==
    pc # "start" => OneLexemePerRun(impl, code, tokens)

\* The same statement for the lexer of rabbit-lang/cli.py alone, which scans
\* the whole dotted run before the registry lookup.
CopyLexerOneLexemePerRun ==
    (pc # "start" /\ impl = "copy") => OneLexemePerRun(impl, code, tokens)

\* C2: a P b M c, P in {+,-} and M in {*,/,^}, builds P(a, M(b, c)), each
\* binary node holding the ASTs of its two operands.
C2_Precedence ==
    (/\ pc = "parsed"
     /\ ThreeOperands(tokens)
     /\ tokens[2].type \in AddTier
     /\ tokens[4].type \in MulTier)
    => IsExprProgram(result,
          ExpBin(tokens[2].type, ExpFactor(tokens[1]),
                 ExpBin(tokens[4].type, ExpFactor(tokens[3]), ExpFactor(tokens[5]))))

\* C3: operators of one tier associate to the left, and ^ is in the tier of
\* * and /: a o1 b o2 c builds o2(o1(a, b), c).
C3_LeftAssociative ==
    (/\ pc = "parsed"
     /\ ThreeOperands(tokens)
     /\ \/ {tokens[2].type, tokens[4].type} \subseteq AddTier
        \/ {tokens[2].type, tokens[4].type} \subseteq MulTier)
    => IsExprProgram(result,
          ExpBin(tokens[4].type,
                 ExpBin(tokens[2].type, ExpFactor(tokens[1]), ExpFactor(tokens[3])),
                 ExpFactor(tokens[5])))

\* C4: for an identifier r, the text r followed by the glyph U+00B2 is
\* accepted and builds what r^2 builds, pow(var(r), 2).
C4_SuperscriptTwo ==
    (/\ pc = "parsed"
     /\ Len(code) >= 2
     /\ code[Len(code)] = "SUP2"
     /\ MatchId(code, 1) = Len(code)
     /\ ~IsBuiltinName(SubSeq(code, 1, Len(code) - 1)))
    => IsExprProgram(result,
          [tag |-> "pow",
           a |-> [tag |-> "var", value |-> [str |-> SubSeq(code, 1, Len(code) - 1)]],
           b |-> [tag |-> "number", value |-> [num |-> [whole |-> 2, frac |-> <<>>]]]])

\* toks is exactly one statement of the grammar.
OneStatement(which, toks) ==
    /\ toks # <<>>
    /\ InLanguage(which, toks)
    /\ Len(PlainTree(which, toks).children) = 1

\* C5: the terminator is optional: two valid statements with a ; between
\* them are accepted and build the same ordered statements as the two
\* written with no ; at all.
C5_SemicolonOptional ==
    pc = "parsed" =>
      \A k \in 1..Len(tokens) :
        LET s1 == SubSeq(tokens, 1, k - 1)
            s2 == SubSeq(tokens, k + 1, Len(tokens))
        IN (/\ tokens[k].type = "SEMICOLON"
            /\ OneStatement("main", s1)
            /\ OneStatement("main", s2))
           => /\ result.ok
              /\ parse(impl, s1 \o s2).ok
              /\ Len(StatementsOf(result.tree)) = 2
              /\ StatementsOf(result.tree) = StatementsOf(parse(impl, s1 \o s2).tree)

\* C6: a lexeme sequence outside the grammar's language makes parse fail
\* with a syntax error, and no tree is returned.
C6_RejectsWithSyntaxError ==
    (pc = "parsed" /\ ~InLanguage(impl, tokens))
    => /\ ~result.ok
       /\ result.error = "UnexpectedInput"
       /\ result.tree = NoNode

\* The assignments to plain identifiers of a program, in order.
IsAssignVar(stmt) ==
    /\ stmt.children[1].tag = "Tree"
    /\ stmt.children[1].data = "assignment"
    /\ stmt.children[1].children[1].type = "ID"

AssignVars(tree) == SelectSeq(StatementsOf(tree), IsAssignVar)

\* C10: after building an accepted program the symbol table's keys are
\* exactly the targets of its assignments to plain identifiers, each mapped
\* to the unevaluated value expression of the last such assignment.
C10_SymbolTable ==
    (pc = "parsed" /\ InLanguage(impl, tokens))
    => LET as == AssignVars(PlainTree(impl, tokens)) IN
       /\ result.ok
       /\ DOMAIN symbols = {as[i].children[1].children[1].value : i \in 1..Len(as)}
       /\ \A i \in 1..Len(as) :
            (\A j \in (i + 1)..Len(as) :
               as[j].children[1].children[1].value # as[i].children[1].children[1].value)
            => symbols[as[i].children[1].children[1].value]
                 = as[i].children[1].children[3]

\* The representation the claim gives a value in a concatenation: a whole
\* number by its integer digits.
IntegerDigitsRepr(v) ==
    IF IsNum(v)
    THEN IF v.num % 2 = 0 THEN NatToDigits(v.num \div 2)
         ELSE NatToDigits(v.num \div 2) \o <<".", "5">>
    ELSE IF IsStr(v) THEN v.str
    ELSE <<"N","o","n","e">>

\* C7: Add of two numbers is their sum; in every other case it is the
\* concatenation of the operands' string representations, a whole number
\* shown by its integer digits (Add(String("a"), Number(1)) is "a1").
C7_PolymorphicAdd ==
    \A l \in Exprs, r \in Exprs :
      LET lv == eval_expr(l, State)
          rv == eval_expr(r, lv.st)
          res == eval_expr(Add(l, r), State)
      IN (lv.kind = "ok" /\ rv.kind = "ok")
         => /\ res.kind = "ok"
            /\ res.val = IF IsNum(lv.val) /\ IsNum(rv.val)
                         THEN Num(lv.val.num + rv.val.num)
                         ELSE Str(IntegerDigitsRepr(lv.val) \o IntegerDigitsRepr(rv.val))

ArgLists ==
    {<<>>} \cup {<<e>> : e \in Exprs} \cup {<<a, b>> : a \in Atoms, b \in Atoms}

UnknownCallees == Callees \ {"print", "input"}

UnboundVarFails ==
    \A n \in Names \ DOMAIN env :
      LET r == eval_expr(Var(n), State) IN
      r.kind = "KeyError" /\ r.val = None /\ r.st.env = env

\* C8 as stated: an unbound Variable fails with the unbound-name error, and
\* a Call of an unknown name fails with the unknown-callable error for any
\* argument list; the Environment is unchanged by the failure.
C8_UnknownCallAnyArgs ==
    /\ UnboundVarFails
    /\ \A c \in UnknownCallees, args \in ArgLists :
         LET r == eval_expr(Call(c, args), State) IN
         r.kind = "NameError" /\ r.val = None /\ r.st.env = env

\* The failure of the first argument that fails, evaluating left to right;
\* "ok" when none does (argument lists of at most two).
FirstArgFailure(args, st) ==
    IF args = <<>> THEN "ok"
    ELSE LET a1 == eval_expr(args[1], st) IN
         IF a1.kind # "ok" \/ Len(args) = 1 THEN a1.kind
         ELSE eval_expr(args[2], a1.st).kind

\* C8 amended: the arguments are evaluated first, so a failing argument's
\* error propagates; once they have all evaluated (always, for the empty
\* list) the call fails with the unknown-callable error.  No value is
\* yielded and the Environment is unchanged.
C8_UnknownCallAfterArgs ==
    /\ UnboundVarFails
    /\ \A c \in UnknownCallees, args \in ArgLists :
         LET r == eval_expr(Call(c, args), State)
             f == FirstArgFailure(args, State)
         IN /\ r.kind = IF f = "ok" THEN "NameError" ELSE f
            /\ r.kind # "ok"
            /\ r.val = None
            /\ r.st.env = env

C8_Witness ==
    /\ last.kind = "NameError"
    /\ last.stmt.tag = "Call"
    /\ last.stmt.name \in UnknownCallees
    /\ last.stmt.args # <<>>
    /\ env # EmptyDict
    /\ Names \ DOMAIN env # {}

\* One executed statement: an Assign whose value evaluates binds its target
\* to that value, keeps every other binding and yields None; any other
\* statement, and an Assign whose value fails, leaves env as it was.
AssignIsTheOnlyWriter ==
    LET s == last'.stmt
        v == eval_expr(s.val, State)
    IN IF s.tag = "Assign" /\ v.kind = "ok"
       THEN /\ DOMAIN env' = DOMAIN env \cup {s.name}
            /\ env'[s.name] = v.val
            /\ \A n \in DOMAIN env \ {s.name} : env'[n] = env[n]
            /\ last'.kind = "ok"
            /\ last'.val = None
       ELSE env' = env

ExpressionsKeepEnv ==
    \A e \in Exprs : eval_expr(e, State).st.env = env

\* C9: the Environment starts empty and is changed only by Assign, which
\* binds its target to the value of its expression and nothing else;
\* evaluating a literal, Variable, Call or Add leaves it unchanged.
C9_EnvChangedOnlyByAssign ==
    /\ env = EmptyDict
    /\ []ExpressionsKeepEnv
    /\ [][AssignIsTheOnlyWriter]_vars

C9_Witness ==
    /\ last.kind = "ok"
    /\ last.stmt.tag = "Assign"
    /\ last.stmt.val.tag = "Add"
    /\ last.stmt.val.left.tag = "Var"
    /\ Cardinality(DOMAIN env) = 2
    /\ env["x"] # env["y"]

====
